---- MODULE Spec2Model ----
(***************************************************************************)
(* State-machine model of customcrosshair.py: the CrosshairOverlay object  *)
(* (configuration fields, custom image, last composited bitmap), the       *)
(* SettingsWindow object (sliders, checkboxes, code line edit, hidden      *)
(* flag) and the settings file crosshair_settings.json.                    *)
(*                                                                         *)
(* Representation choices:                                                 *)
(*  - a text is a sequence of one-character strings;                       *)
(*  - an opacity is held in hundredths: the integer h stands for the       *)
(*    double nearest to h/100 (what v/100 yields in Python for an int v);  *)
(*  - an image is its shape <<height, width>>, None is <<>>;               *)
(*  - a handler is an operator on a machine record                         *)
(*    [c: overlay fields, w: widget fields, r: locals of the last          *)
(*    update_crosshair, n: number of update_crosshair calls], so that the  *)
(*    synchronous signal/slot calls of Qt compose as nested applications.  *)
(*    An operator binds the machine it is given once, as the element of a  *)
(*    singleton set, so that its argument is evaluated a single time.      *)
(***************************************************************************)
EXTENDS Integers, Sequences, FiniteSets, TLC

VARIABLES crosshair, ui, render, file, saved, last, nOps

vars == <<crosshair, ui, render, file, saved, last, nOps>>

Max(a, b) == IF a >= b THEN a ELSE b
Min(a, b) == IF a <= b THEN a ELSE b

None == <<>>

\* the element of a singleton set
The(S) == CHOOSE x \in S : TRUE

(***************************************************************************)
(* Texts and the decoder pattern of parse_valorant_code                    *)
(*   0;P;.*?0t;(\d+);0l;(\d+);0o;(\d+);0a;(\d+);0f;(\d+);1t;(\d+);         *)
(*   1o;(\d+);1a;(\d+)                                                     *)
(***************************************************************************)
Digits == <<"0", "1", "2", "3", "4", "5", "6", "7", "8", "9">>

IsDigit(ch) == \E d \in 1..10 : Digits[d] = ch

\* int() of one decimal digit
DigitVal(ch) == (CHOOSE d \in 1..10 : Digits[d] = ch) - 1

\* int() of a non-empty run of decimal digits
RECURSIVE ToInt(_)
ToInt(ds) ==
    IF Len(ds) = 0 THEN 0
    ELSE 10 * ToInt(SubSeq(ds, 1, Len(ds) - 1)) + DigitVal(ds[Len(ds)])

\* str() of a non-negative integer
RECURSIVE Dec(_)
Dec(n) == IF n < 10 THEN <<Digits[n + 1]>> ELSE Dec(n \div 10) \o <<Digits[(n % 10) + 1]>>

\* the literal head of the pattern and the literal in front of each group
PatHead == <<"0", ";", "P", ";">>

PatKeys ==
    << <<"0", "t", ";">>,
       <<";", "0", "l", ";">>,
       <<";", "0", "o", ";">>,
       <<";", "0", "a", ";">>,
       <<";", "0", "f", ";">>,
       <<";", "1", "t", ";">>,
       <<";", "1", "o", ";">>,
       <<";", "1", "a", ";">> >>

\* does the literal lit occur in s at position pos
LitAt(s, pos, lit) ==
    /\ pos >= 1
    /\ pos + Len(lit) - 1 <= Len(s)
    /\ \A j \in 1..Len(lit) : s[pos + j - 1] = lit[j]

\* the position after the longest run of digits of s that starts at pos (\d+ is
\* greedy; what follows a group is ';' or the end, so no shorter run can match)
RECURSIVE DigitsEnd(_, _)
DigitsEnd(s, pos) ==
    IF pos <= Len(s) /\ IsDigit(s[pos]) THEN DigitsEnd(s, pos + 1) ELSE pos

\* match groups i..8 of the pattern at pos: the sequence of the group values
\* appended to acc, or None when the text does not match there
RECURSIVE MatchFields(_, _, _, _)
MatchFields(s, pos, i, acc) ==
    IF i > Len(PatKeys) THEN acc
    ELSE IF ~LitAt(s, pos, PatKeys[i]) THEN None
    ELSE LET from == pos + Len(PatKeys[i])
             to == DigitsEnd(s, from)
         IN IF to = from THEN None
            ELSE MatchFields(s, to, i + 1, Append(acc, ToInt(SubSeq(s, from, to - 1))))

\* re.search(pattern, code): the groups of the leftmost match, the lazy .*? taking
\* the shortest gap; None when there is no match
PatSearch(s) ==
    LET Starts == {i \in 1..Len(s) : LitAt(s, i, PatHead)}
        Gaps(i) == {k \in (i + Len(PatHead))..Len(s) : MatchFields(s, k, 1, <<>>) # None}
        Good == {i \in Starts : Gaps(i) # {}}
    IN IF Good = {} THEN None
       ELSE LET i == CHOOSE x \in Good : \A y \in Good : x <= y
                k == CHOOSE x \in Gaps(i) : \A y \in Gaps(i) : x <= y
            IN MatchFields(s, k, 1, <<>>)

(***************************************************************************)
(* Widget ranges set in init_ui, and the constants of update_crosshair     *)
(***************************************************************************)
SizeMin == 50
SizeMax == 200
ThicknessMin == 1
ThicknessMax == 10
OpacityMin == 0
OpacityMax == 100
padding == 32
scale_factor == 2
target_size == 64

\* the keys save_settings writes
Keys ==
    {"size", "color", "outline_color", "thickness", "outline_thickness",
     "show_outline", "inner_length", "inner_opacity", "show_inner",
     "outer_length", "outer_opacity", "show_outer", "show_dot", "dot_opacity",
     "dot_size"}

\* the configuration fields CrosshairOverlay.__init__ sets (opacity 1.0 = 100)
Defaults ==
    [size |-> 100, color |-> <<0, 255, 0>>, outline_color |-> <<0, 0, 0>>,
     thickness |-> 2, outline_thickness |-> 1, show_outline |-> FALSE,
     inner_length |-> 4, inner_opacity |-> 100, show_inner |-> TRUE,
     outer_length |-> 0, outer_opacity |-> 100, show_outer |-> TRUE,
     show_dot |-> FALSE, dot_opacity |-> 100, dot_size |-> 2]

\* the geometry of the primary screen, as center_on_screen reads it
ScreenGeometry == [width |-> 1920, height |-> 1080]

\* the size Qt gives a top-level widget that was never resized
WidgetDefaultSize == [width |-> 640, height |-> 480]

\* the CrosshairOverlay object as __init__ sets it up before its update_crosshair
\* and center_on_screen calls: the configuration, no custom image, no bitmap on
\* the label (pixmap 0), the window at its default size and not yet moved, no
\* center_timer attribute, no timer left running by an earlier call; shown by
\* SettingsWindow.__init__
OverlayInit ==
    [size |-> Defaults.size, color |-> Defaults.color,
     outline_color |-> Defaults.outline_color, thickness |-> Defaults.thickness,
     outline_thickness |-> Defaults.outline_thickness,
     show_outline |-> Defaults.show_outline, inner_length |-> Defaults.inner_length,
     inner_opacity |-> Defaults.inner_opacity, show_inner |-> Defaults.show_inner,
     outer_length |-> Defaults.outer_length, outer_opacity |-> Defaults.outer_opacity,
     show_outer |-> Defaults.show_outer, show_dot |-> Defaults.show_dot,
     dot_opacity |-> Defaults.dot_opacity, dot_size |-> Defaults.dot_size,
     crosshair_image |-> None, pixmap |-> 0, visible |-> TRUE,
     width |-> WidgetDefaultSize.width, height |-> WidgetDefaultSize.height,
     pos |-> <<0, 0>>, center_timer |-> None, orphan_timers |-> 0]

\* the SettingsWindow widgets after init_ui, shown by the main block
WindowInit ==
    [size_slider |-> 100, thickness_slider |-> 2,
     inner_opacity_slider |-> 100, outer_opacity_slider |-> 100,
     dot_opacity_slider |-> 100,
     outline_check |-> FALSE, inner_check |-> TRUE, outer_check |-> TRUE,
     dot_check |-> FALSE, code_input |-> <<>>, hidden |-> FALSE, visible |-> TRUE,
     closed |-> FALSE]

\* the configuration part of the overlay object, as save_settings reads it
Config(c) == [k \in Keys |-> c[k]]

\* the locals of update_crosshair before its first compositing
NoRender == [S |-> 0, H |-> 0, img_size |-> 0, scaled_h |-> 0, scaled_w |-> 0,
             x_offset |-> 0, y_offset |-> 0, copied |-> FALSE]

(***************************************************************************)
(* CrosshairOverlay.update_crosshair                                       *)
(***************************************************************************)
\* variant: the padded size is left even
CanvasSizeNotMadeOdd(S, H) == Max(S + padding, H + padding)

\* img_size: max of the two padded sizes, made odd
CanvasSize(S, H) ==
    LET m == Max(S + padding, H + padding)
    IN IF m % 2 = 0 THEN m + 1 ELSE m

\* offset of a block of extent dim centred on a canvas (// floors)
CenterOffset(img_size, dim) == (img_size - dim) \div 2

\* the extent of the numpy slice a[start:stop] of an axis of length n
SliceLen(start, stop, n) ==
    LET Norm(i) == IF i < 0 THEN Max(i + n, 0) ELSE Min(i, n)
    IN Max(Norm(stop) - Norm(start), 0)

\* variant: the label and the window are set to the canvas before the copy
update_crosshair_resizes_first(mach) ==
    The({LET img == m.c.crosshair_image
         IN IF img = None THEN [m EXCEPT !.n = @ + 1]
            ELSE LET img_size == CanvasSize(m.c.size, img[1])
                     sh == img[1] * scale_factor
                     sw == img[2] * scale_factor
                     y == CenterOffset(img_size, sh)
                     x == CenterOffset(img_size, sw)
                     ok == /\ SliceLen(y, y + sh, img_size) = sh
                           /\ SliceLen(x, x + sw, img_size) = sw
                 IN [m EXCEPT !.n = @ + 1,
                              !.r = [S |-> m.c.size, H |-> img[1], img_size |-> img_size,
                                     scaled_h |-> sh, scaled_w |-> sw, x_offset |-> x,
                                     y_offset |-> y, copied |-> ok],
                              !.c.pixmap = img_size,
                              !.c.width = img_size,
                              !.c.height = img_size]
         : m \in {mach}})

\* one call: without an image nothing happens; with one, the canvas is sized, the
\* image scaled and copied to the centre. The copy raises ValueError unless the
\* slice has the extent of the scaled image; the except clause then leaves the
\* label and the window as they were; after the copy come setPixmap and
\* resize(img_size, img_size)
update_crosshair(mach) ==
    The({LET img == m.c.crosshair_image
         IN IF img = None THEN [m EXCEPT !.n = @ + 1]
            ELSE LET img_size == CanvasSize(m.c.size, img[1])
                     sh == img[1] * scale_factor
                     sw == img[2] * scale_factor
                     y == CenterOffset(img_size, sh)
                     x == CenterOffset(img_size, sw)
                     ok == /\ SliceLen(y, y + sh, img_size) = sh
                           /\ SliceLen(x, x + sw, img_size) = sw
                 IN [m EXCEPT !.n = @ + 1,
                              !.r = [S |-> m.c.size, H |-> img[1], img_size |-> img_size,
                                     scaled_h |-> sh, scaled_w |-> sw, x_offset |-> x,
                                     y_offset |-> y, copied |-> ok],
                              !.c.pixmap = IF ok THEN img_size ELSE @,
                              !.c.width = IF ok THEN img_size ELSE @,
                              !.c.height = IF ok THEN img_size ELSE @]
         : m \in {mach}})

(***************************************************************************)
(* CrosshairOverlay.center_on_screen. A timer is its captured x, y and      *)
(* whether it is running; orphan_timers counts the running timers that the  *)
(* center_timer attribute no longer refers to.                              *)
(***************************************************************************)
\* x, y of center_on_screen for a window of the given size (// floors)
CenteredPosition(window_width, window_height) ==
    <<(ScreenGeometry.width - window_width) \div 2 - 1,
      (ScreenGeometry.height - window_height) \div 2 - 1>>

\* QTimer.stop on the timer the attribute refers to
StopTimer(t) == IF t = None THEN None ELSE [t EXCEPT !.active = FALSE]

\* 1 when the attribute refers to a running timer, which stays running when
\* the attribute is rebound
Running(t) == IF t # None /\ t.active THEN 1 ELSE 0

\* variant: the earlier timer is not stopped before the attribute is rebound
center_on_screen_keeps_old_timer(mach) ==
    The({LET xy == CenteredPosition(m.c.width, m.c.height)
         IN [m EXCEPT !.c.pos = xy,
                      !.c.orphan_timers = @ + Running(m.c.center_timer),
                      !.c.center_timer = [x |-> xy[1], y |-> xy[2], active |-> TRUE]]
         : m \in {mach}})

\* move(x, y); the timer of the earlier call, if any, is stopped; a new timer
\* that moves the window to this x, y is started
center_on_screen(mach) ==
    The({LET xy == CenteredPosition(m.c.width, m.c.height)
         IN [m EXCEPT !.c.pos = xy,
                      !.c.orphan_timers = @ + Running(StopTimer(m.c.center_timer)),
                      !.c.center_timer = [x |-> xy[1], y |-> xy[2], active |-> TRUE]]
         : m \in {mach}})

\* the re-centering timers of the overlay that are running
ActiveTimers(c) == c.orphan_timers + Running(c.center_timer)

\* the timeout slot of a timer: lambda: self.move(x, y)
center_timer_timeout(m, t) == [m EXCEPT !.c.pos = <<t.x, t.y>>]

(***************************************************************************)
(* Slots of SettingsWindow                                                 *)
(***************************************************************************)
update_size(m, value) ==
    center_on_screen(update_crosshair([m EXCEPT !.c.size = value]))

update_thickness(m, value) == update_crosshair([m EXCEPT !.c.thickness = value])

\* bool(state)
update_outline(m, state) == update_crosshair([m EXCEPT !.c.show_outline = (state # 0)])

update_inner_visibility(m, state) ==
    update_crosshair([m EXCEPT !.c.show_inner = (state # 0)])

update_outer_visibility(m, state) ==
    update_crosshair([m EXCEPT !.c.show_outer = (state # 0)])

update_dot_visibility(m, state) ==
    update_crosshair([m EXCEPT !.c.show_dot = (state # 0)])

\* value arrives as v/100, held here as the hundredths v
update_opacity(m, element, value) ==
    update_crosshair(
        CASE element = "inner" -> [m EXCEPT !.c.inner_opacity = value]
          [] element = "outer" -> [m EXCEPT !.c.outer_opacity = value]
          [] element = "dot" -> [m EXCEPT !.c.dot_opacity = value]
          [] OTHER -> m)

(***************************************************************************)
(* Qt widgets: setValue bounds the value to the slider's range and emits   *)
(* valueChanged only when the value changes; setChecked emits stateChanged *)
(* only when the state changes. init_ui connects every slot twice, so each *)
(* emission runs the slot twice.                                           *)
(***************************************************************************)
Bound(v, lo, hi) == Max(lo, Min(v, hi))

size_slider_setValue(mach, v) ==
    The({LET nv == Bound(v, SizeMin, SizeMax)
         IN IF nv = m.w.size_slider THEN m
            ELSE update_size(update_size([m EXCEPT !.w.size_slider = nv], nv), nv)
         : m \in {mach}})

thickness_slider_setValue(mach, v) ==
    The({LET nv == Bound(v, ThicknessMin, ThicknessMax)
         IN IF nv = m.w.thickness_slider THEN m
            ELSE update_thickness(update_thickness([m EXCEPT !.w.thickness_slider = nv], nv), nv)
         : m \in {mach}})

inner_opacity_slider_setValue(mach, v) ==
    The({LET nv == Bound(v, OpacityMin, OpacityMax)
         IN IF nv = m.w.inner_opacity_slider THEN m
            ELSE update_opacity(
                     update_opacity([m EXCEPT !.w.inner_opacity_slider = nv], "inner", nv),
                     "inner", nv)
         : m \in {mach}})

outer_opacity_slider_setValue(mach, v) ==
    The({LET nv == Bound(v, OpacityMin, OpacityMax)
         IN IF nv = m.w.outer_opacity_slider THEN m
            ELSE update_opacity(
                     update_opacity([m EXCEPT !.w.outer_opacity_slider = nv], "outer", nv),
                     "outer", nv)
         : m \in {mach}})

dot_opacity_slider_setValue(mach, v) ==
    The({LET nv == Bound(v, OpacityMin, OpacityMax)
         IN IF nv = m.w.dot_opacity_slider THEN m
            ELSE update_opacity(
                     update_opacity([m EXCEPT !.w.dot_opacity_slider = nv], "dot", nv),
                     "dot", nv)
         : m \in {mach}})

\* the Qt.CheckState stateChanged carries: Checked is 2, Unchecked 0
StateOf(b) == IF b THEN 2 ELSE 0

outline_check_setChecked(mach, b) ==
    The({IF b = m.w.outline_check THEN m
         ELSE update_outline(
                  update_outline([m EXCEPT !.w.outline_check = b], StateOf(b)), StateOf(b))
         : m \in {mach}})

inner_check_setChecked(mach, b) ==
    The({IF b = m.w.inner_check THEN m
         ELSE update_inner_visibility(
                  update_inner_visibility([m EXCEPT !.w.inner_check = b], StateOf(b)),
                  StateOf(b))
         : m \in {mach}})

outer_check_setChecked(mach, b) ==
    The({IF b = m.w.outer_check THEN m
         ELSE update_outer_visibility(
                  update_outer_visibility([m EXCEPT !.w.outer_check = b], StateOf(b)),
                  StateOf(b))
         : m \in {mach}})

dot_check_setChecked(mach, b) ==
    The({IF b = m.w.dot_check THEN m
         ELSE update_dot_visibility(
                  update_dot_visibility([m EXCEPT !.w.dot_check = b], StateOf(b)),
                  StateOf(b))
         : m \in {mach}})

(***************************************************************************)
(* SettingsWindow.toggle_visibility, choose_color, choose_outline_color    *)
(***************************************************************************)
\* variant: the overlay is left as it is
toggle_visibility_panel_only(mach) ==
    The({IF m.w.hidden
         THEN [m EXCEPT !.w.visible = TRUE, !.w.hidden = FALSE]
         ELSE [m EXCEPT !.w.visible = FALSE, !.w.hidden = TRUE]
         : m \in {mach}})

toggle_visibility(mach) ==
    The({IF m.w.hidden
         THEN [m EXCEPT !.w.visible = TRUE, !.c.visible = TRUE, !.w.hidden = FALSE]
         ELSE [m EXCEPT !.w.visible = FALSE, !.c.visible = FALSE, !.w.hidden = TRUE]
         : m \in {mach}})

\* picked is the dialog's colour, None when the dialog was cancelled (not isValid)
choose_color(m, picked) ==
    IF picked = None THEN m ELSE update_crosshair([m EXCEPT !.c.color = picked])

choose_outline_color(m, picked) ==
    IF picked = None THEN m ELSE update_crosshair([m EXCEPT !.c.outline_color = picked])

(***************************************************************************)
(* convert_to_recommended_resolution and load_crosshair_image. The picked  *)
(* file is "cancelled" (empty path), "unreadable" (imread gives None) or   *)
(* "image", read with the given number of channels (1 for a 2-D array).    *)
(***************************************************************************)
\* 1, 3 and 4 channels end as a target_size square BGRA image; any other layout
\* raises at image[:, :, 3] and the except clause returns None
convert_to_recommended_resolution(channels) ==
    IF channels \in {1, 3, 4} THEN <<target_size, target_size>> ELSE None

load_crosshair_image(m, picked) ==
    IF picked.file = "cancelled" THEN [m |-> m, outcome |-> "cancelled"]
    ELSE IF picked.file = "unreadable" THEN [m |-> m, outcome |-> "unreadable"]
    ELSE LET converted_image == convert_to_recommended_resolution(picked.channels)
         IN IF converted_image = None THEN [m |-> m, outcome |-> "unconvertible"]
            ELSE [m |-> center_on_screen(
                            update_crosshair([m EXCEPT !.c.crosshair_image = converted_image])),
                  outcome |-> "loaded"]

(***************************************************************************)
(* The settings file: absent, unparsable, or a JSON object holding the     *)
(* keys `present` with the values val[k]; the keys in `null` hold null.    *)
(***************************************************************************)
AbsentFile == [kind |-> "absent", present |-> {}, null |-> {}, val |-> Defaults]

CorruptFile == [kind |-> "corrupt", present |-> {}, null |-> {}, val |-> Defaults]

JsonFile(present, val) == [kind |-> "json", present |-> present, null |-> {}, val |-> val]

\* json.dump of the configuration: every key, no null; a float is written with
\* repr and read back as the same double, a colour tuple as a list
save_settings(conf) == JsonFile(Keys, conf)

\* the second arguments of settings.get in load_settings
GetDefaults ==
    [size |-> 100, color |-> <<0, 255, 0>>, thickness |-> 2, outline_thickness |-> 1,
     show_outline |-> FALSE, inner_length |-> 4, inner_opacity |-> 100,
     show_inner |-> TRUE, outer_length |-> 0, outer_opacity |-> 100,
     show_outer |-> TRUE, show_dot |-> FALSE, dot_opacity |-> 100, dot_size |-> 2]

\* settings.get(k, default), for a key that does not hold null
Get(f, k) == IF k \in f.present THEN f.val[k] ELSE GetDefaults[k]

\* the hundredths h <= 300 for which the double h/100 times 100 lies just below h
\* (IEEE-754 binary64, round to nearest even): 0.29 * 100 = 28.999999999999996
TruncatedHundredths ==
    {29, 57, 58, 113, 114, 115, 116, 201, 203, 205, 207, 226, 228, 230, 232, 251,
     253, 255}

\* int(opacity * 100) for a non-negative opacity held as hundredths
IntTimes100(h) == IF h \in TruncatedHundredths THEN h - 1 ELSE h

\* load_settings on the file f. The assignments run in source order; tuple(None)
\* raises TypeError at the colour, after size has been assigned
\* the widget updates of load_settings, in source order; each reads the field
\* as it is when its turn comes
LoadUiSteps == 8

load_settings_ui(mach, i) ==
    The({CASE i = 1 -> size_slider_setValue(m, m.c.size)
           [] i = 2 -> thickness_slider_setValue(m, m.c.thickness)
           [] i = 3 -> inner_opacity_slider_setValue(m, IntTimes100(m.c.inner_opacity))
           [] i = 4 -> outer_opacity_slider_setValue(m, IntTimes100(m.c.outer_opacity))
           [] i = 5 -> outline_check_setChecked(m, m.c.show_outline)
           [] i = 6 -> inner_check_setChecked(m, m.c.show_inner)
           [] i = 7 -> outer_check_setChecked(m, m.c.show_outer)
           [] i = 8 -> dot_check_setChecked(m, m.c.show_dot)
         : m \in {mach}})

RECURSIVE load_settings_ui_from(_, _)
load_settings_ui_from(mach, i) ==
    IF i > LoadUiSteps THEN mach
    ELSE load_settings_ui_from(load_settings_ui(mach, i), i + 1)

\* load_settings on the file f. The assignments run in source order; tuple(None)
\* raises TypeError at the colour, after size has been assigned
load_settings(mach, f) ==
    The({IF f.kind = "absent" THEN [m |-> m, outcome |-> "absent"]
         ELSE IF f.kind = "corrupt" THEN [m |-> m, outcome |-> "error"]
         ELSE IF "color" \in f.null
         THEN [m |-> [m EXCEPT !.c.size = Get(f, "size")], outcome |-> "error"]
         ELSE [m |-> update_crosshair(
                         load_settings_ui_from(
                             [m EXCEPT !.c.size = Get(f, "size"),
                                       !.c.color = Get(f, "color"),
                                       !.c.thickness = Get(f, "thickness"),
                                       !.c.outline_thickness = Get(f, "outline_thickness"),
                                       !.c.show_outline = Get(f, "show_outline"),
                                       !.c.inner_length = Get(f, "inner_length"),
                                       !.c.inner_opacity = Get(f, "inner_opacity"),
                                       !.c.show_inner = Get(f, "show_inner"),
                                       !.c.outer_length = Get(f, "outer_length"),
                                       !.c.outer_opacity = Get(f, "outer_opacity"),
                                       !.c.show_outer = Get(f, "show_outer"),
                                       !.c.show_dot = Get(f, "show_dot"),
                                       !.c.dot_opacity = Get(f, "dot_opacity"),
                                       !.c.dot_size = Get(f, "dot_size")], 1)),
               outcome |-> "loaded"]
         : m \in {mach}})

(***************************************************************************)
(* SettingsWindow.closeEvent: the timer the attribute refers to is stopped, *)
(* the overlay is closed, and the accepted event closes the settings window *)
(***************************************************************************)
closeEvent(mach) ==
    The({[m EXCEPT !.c.center_timer = StopTimer(@),
                   !.c.visible = FALSE,
                   !.w.visible = FALSE,
                   !.w.closed = TRUE]
         : m \in {mach}})

(***************************************************************************)
(* Bounds and inputs                                                       *)
(***************************************************************************)
\* handlers run after startup
MaxOps == 3

\* slider positions the user moves to
SizeInputs == {SizeMin, 100, SizeMax}
ThicknessInputs == {2, 5}
InnerOpacityInputs == {29, OpacityMax}
OuterOpacityInputs == {50, OpacityMax}
DotOpacityInputs == {50, OpacityMax}

\* colours the colour dialog returns; None is a cancelled dialog
ColorInputs == {None, <<255, 0, 0>>}

\* what the file dialog and imread return
ImageInputs ==
    {[file |-> "cancelled", channels |-> 0], [file |-> "unreadable", channels |-> 0],
     [file |-> "image", channels |-> 2], [file |-> "image", channels |-> 3],
     [file |-> "image", channels |-> 4]}

\* the crosshair code with the given text between head and first key and the
\* given eight values
MkCode(gap, g) ==
    PatHead \o gap \o PatKeys[1] \o Dec(g[1]) \o PatKeys[2] \o Dec(g[2])
      \o PatKeys[3] \o Dec(g[3]) \o PatKeys[4] \o Dec(g[4]) \o PatKeys[5] \o Dec(g[5])
      \o PatKeys[6] \o Dec(g[6]) \o PatKeys[7] \o Dec(g[7]) \o PatKeys[8] \o Dec(g[8])

\* 0;P;x;0t;1;0l;4;0o;2;0a;75;0f;0;1t;3;1o;50;1a;2
ExampleCode == MkCode(<<"x", ";">>, <<1, 4, 2, 75, 0, 3, 50, 2>>)

\* the same with another inner offset
OffsetCode == MkCode(<<"x", ";">>, <<1, 4, 2, 75, 5, 3, 50, 2>>)

\* percentages above 100: 0;P;0t;0;0l;3;0o;1;0a;150;0f;7;1t;2;1o;50;1a;3
OverCode == MkCode(<<>>, <<0, 3, 1, 150, 7, 2, 50, 3>>)

\* texts the pattern does not match: no head, the last group without its digits
NoHeadCode == SubSeq(ExampleCode, Len(PatHead) + 1, Len(ExampleCode))
CutCode == SubSeq(ExampleCode, 1, Len(ExampleCode) - 1)

CodeInputs == {<<>>, ExampleCode, OffsetCode, OverCode, NoHeadCode, CutCode}

\* the settings file found at startup
StartFiles ==
    {AbsentFile, CorruptFile,
     JsonFile({}, Defaults),
     JsonFile(Keys, [Defaults EXCEPT !.size = 300, !.outline_thickness = 3]),
     JsonFile(Keys \ {"outline_color", "dot_size"},
              [Defaults EXCEPT !.thickness = 5, !.show_dot = TRUE, !.dot_opacity = 50]),
     [JsonFile({"size", "color"}, Defaults) EXCEPT !.null = {"color"}]}

\* re.search on the line edit's text; the matches of the texts typed in this
\* model are computed once
SearchMemo == [t \in CodeInputs |-> PatSearch(t)]

re_search(code) == IF code \in DOMAIN SearchMemo THEN SearchMemo[code] ELSE PatSearch(code)

(***************************************************************************)
(* SettingsWindow.parse_valorant_code: the text is the line edit's; the    *)
(* result is the machine and the branch taken                              *)
(***************************************************************************)
\* variant: the display is refreshed in the branch that rejects the text too
parse_valorant_code_always_renders(mach) ==
    The({LET code == m.w.code_input
             g == re_search(code)
         IN IF code = <<>> THEN [m |-> m, outcome |-> "empty", groups |-> None]
            ELSE IF g = None
            THEN [m |-> update_crosshair(m), outcome |-> "invalid", groups |-> None]
            ELSE [m |-> update_crosshair(
                            outer_opacity_slider_setValue(
                                inner_opacity_slider_setValue(
                                    outline_check_setChecked(
                                        [m EXCEPT !.c.show_outline = (g[1] # 0),
                                                  !.c.inner_length = g[2] * 2,
                                                  !.c.outer_length = g[3] * 2,
                                                  !.c.inner_opacity = g[4],
                                                  !.c.outline_thickness = g[6],
                                                  !.c.outer_opacity = g[7] * g[8]],
                                        g[1] # 0),
                                    g[4]),
                                g[7] * g[8])),
                  outcome |-> "applied", groups |-> g]
         : m \in {mach}})

\* variant: the inner offset is added to the inner length
parse_valorant_code_applies_offset(mach) ==
    The({LET code == m.w.code_input
             g == re_search(code)
         IN IF code = <<>> THEN [m |-> m, outcome |-> "empty", groups |-> None]
            ELSE IF g = None
            THEN [m |-> m, outcome |-> "invalid", groups |-> None]
            ELSE [m |-> update_crosshair(
                            outer_opacity_slider_setValue(
                                inner_opacity_slider_setValue(
                                    outline_check_setChecked(
                                        [m EXCEPT !.c.show_outline = (g[1] # 0),
                                                  !.c.inner_length = g[2] * 2 + g[5],
                                                  !.c.outer_length = g[3] * 2,
                                                  !.c.inner_opacity = g[4],
                                                  !.c.outline_thickness = g[6],
                                                  !.c.outer_opacity = g[7] * g[8]],
                                        g[1] # 0),
                                    g[4]),
                                g[7] * g[8])),
                  outcome |-> "applied", groups |-> g]
         : m \in {mach}})

parse_valorant_code(mach) ==
    The({LET code == m.w.code_input
             g == re_search(code)
         IN IF code = <<>> THEN [m |-> m, outcome |-> "empty", groups |-> None]
            ELSE IF g = None
            THEN [m |-> m, outcome |-> "invalid", groups |-> None]
            ELSE [m |-> update_crosshair(
                            outer_opacity_slider_setValue(
                                inner_opacity_slider_setValue(
                                    outline_check_setChecked(
                                        [m EXCEPT !.c.show_outline = (g[1] # 0),
                                                  !.c.inner_length = g[2] * 2,
                                                  !.c.outer_length = g[3] * 2,
                                                  !.c.inner_opacity = g[4],
                                                  !.c.outline_thickness = g[6],
                                                  !.c.outer_opacity = g[7] * g[8]],
                                        g[1] # 0),
                                    g[4]),
                                g[7] * g[8])),
                  outcome |-> "applied", groups |-> g]
         : m \in {mach}})

(***************************************************************************)
(* The state machine                                                       *)
(***************************************************************************)
\* the objects as a handler finds them
Mach == [c |-> crosshair, w |-> ui, r |-> render, n |-> 0]

\* the objects as a handler leaves them, and what it did: the branch it took,
\* the number of update_crosshair calls, the groups a decode matched. Nothing
\* runs once the settings window has been closed: the event loop has ended
Step(mach, op, outcome, groups) ==
    /\ nOps < MaxOps
    /\ ~ui.closed
    /\ \E m \in {mach} :
           /\ crosshair' = m.c
           /\ ui' = m.w
           /\ render' = m.r
           /\ last' = [op |-> op, outcome |-> outcome, renders |-> m.n, groups |-> groups]
    /\ nOps' = nOps + 1

\* SettingsWindow() with the settings file f in place, then settings.show()
Startup(f) ==
    \E res \in {load_settings(
                    center_on_screen(
                        update_crosshair([c |-> OverlayInit, w |-> WindowInit,
                                          r |-> NoRender, n |-> 0])), f)} :
       /\ crosshair = res.m.c
       /\ ui = res.m.w
       /\ render = res.m.r
       /\ file = f
       /\ saved = None
       /\ last = [op |-> "startup", outcome |-> res.outcome, renders |-> res.m.n,
                  groups |-> None]
       /\ nOps = 0

Init == \E f \in StartFiles : Startup(f)

SizeSliderMoved ==
    \E v \in SizeInputs :
        /\ v # ui.size_slider
        /\ Step(size_slider_setValue(Mach, v), "size_slider", "done", None)
        /\ UNCHANGED <<file, saved>>

ThicknessSliderMoved ==
    \E v \in ThicknessInputs :
        /\ v # ui.thickness_slider
        /\ Step(thickness_slider_setValue(Mach, v), "thickness_slider", "done", None)
        /\ UNCHANGED <<file, saved>>

InnerOpacitySliderMoved ==
    \E v \in InnerOpacityInputs :
        /\ v # ui.inner_opacity_slider
        /\ Step(inner_opacity_slider_setValue(Mach, v), "inner_opacity_slider", "done", None)
        /\ UNCHANGED <<file, saved>>

OuterOpacitySliderMoved ==
    \E v \in OuterOpacityInputs :
        /\ v # ui.outer_opacity_slider
        /\ Step(outer_opacity_slider_setValue(Mach, v), "outer_opacity_slider", "done", None)
        /\ UNCHANGED <<file, saved>>

DotOpacitySliderMoved ==
    \E v \in DotOpacityInputs :
        /\ v # ui.dot_opacity_slider
        /\ Step(dot_opacity_slider_setValue(Mach, v), "dot_opacity_slider", "done", None)
        /\ UNCHANGED <<file, saved>>

OutlineCheckClicked ==
    /\ Step(outline_check_setChecked(Mach, ~ui.outline_check), "outline_check", "done", None)
    /\ UNCHANGED <<file, saved>>

InnerCheckClicked ==
    /\ Step(inner_check_setChecked(Mach, ~ui.inner_check), "inner_check", "done", None)
    /\ UNCHANGED <<file, saved>>

OuterCheckClicked ==
    /\ Step(outer_check_setChecked(Mach, ~ui.outer_check), "outer_check", "done", None)
    /\ UNCHANGED <<file, saved>>

DotCheckClicked ==
    /\ Step(dot_check_setChecked(Mach, ~ui.dot_check), "dot_check", "done", None)
    /\ UNCHANGED <<file, saved>>

ChooseColor ==
    \E picked \in ColorInputs :
        /\ Step(choose_color(Mach, picked), "choose_color",
                IF picked = None THEN "cancelled" ELSE "done", None)
        /\ UNCHANGED <<file, saved>>

ChooseOutlineColor ==
    \E picked \in ColorInputs :
        /\ Step(choose_outline_color(Mach, picked), "choose_outline_color",
                IF picked = None THEN "cancelled" ELSE "done", None)
        /\ UNCHANGED <<file, saved>>

\* the text is typed into the line edit and return is pressed
ParseValorantCode ==
    \E text \in CodeInputs :
        \E res \in {parse_valorant_code([Mach EXCEPT !.w.code_input = text])} :
           /\ Step(res.m, "parse_valorant_code", res.outcome, res.groups)
           /\ UNCHANGED <<file, saved>>

LoadCrosshairImage ==
    \E picked \in ImageInputs :
        \E res \in {load_crosshair_image(Mach, picked)} :
           /\ Step(res.m, "load_crosshair_image", res.outcome, None)
           /\ UNCHANGED <<file, saved>>

\* open(..., 'w') either succeeds, and the record is written, or raises and the
\* file stays as it is
SaveSettings ==
    \E written \in BOOLEAN :
        /\ Step(Mach, "save_settings", IF written THEN "saved" ELSE "error", None)
        /\ file' = IF written THEN save_settings(Config(crosshair)) ELSE file
        /\ saved' = IF written THEN <<Config(crosshair)>> ELSE saved

LoadSettings ==
    \E res \in {load_settings(Mach, file)} :
       /\ Step(res.m, "load_settings", res.outcome, None)
       /\ UNCHANGED <<file, saved>>

ToggleVisibility ==
    /\ Step(toggle_visibility(Mach), "toggle_visibility", "done", None)
    /\ UNCHANGED <<file, saved>>

\* the running re-centering timer fires
CenterTimerTimeout ==
    /\ crosshair.center_timer # None
    /\ crosshair.center_timer.active
    /\ Step(center_timer_timeout(Mach, crosshair.center_timer), "center_timer", "done", None)
    /\ UNCHANGED <<file, saved>>

\* the settings window is closed
CloseEvent ==
    /\ Step(closeEvent(Mach), "closeEvent", "done", None)
    /\ UNCHANGED <<file, saved>>

Next ==
    \/ SizeSliderMoved
    \/ ThicknessSliderMoved
    \/ InnerOpacitySliderMoved
    \/ OuterOpacitySliderMoved
    \/ DotOpacitySliderMoved
    \/ OutlineCheckClicked
    \/ InnerCheckClicked
    \/ OuterCheckClicked
    \/ DotCheckClicked
    \/ ChooseColor
    \/ ChooseOutlineColor
    \/ ParseValorantCode
    \/ LoadCrosshairImage
    \/ SaveSettings
    \/ LoadSettings
    \/ ToggleVisibility
    \/ CenterTimerTimeout
    \/ CloseEvent

Spec == Init /\ [][Next]_vars

(***************************************************************************)
(* update_crosshair as a function of the configured size and the image     *)
(* shape: the inputs are drawn at the start, the action is one call        *)
(***************************************************************************)
\* sizes and image heights up to MaxSide, beside the program's own values
MaxSide == 12

CanvasSizes == ((0 - MaxSide)..MaxSide) \cup {SizeMin, 100, SizeMax}
CanvasHeights == (1..MaxSide) \cup {target_size}

InitCanvas ==
    \E S \in CanvasSizes, H \in CanvasHeights :
        /\ crosshair = [OverlayInit EXCEPT !.size = S, !.crosshair_image = <<H, H>>]
        /\ ui = WindowInit
        /\ render = NoRender
        /\ file = AbsentFile
        /\ saved = None
        /\ last = [op |-> "startup", outcome |-> "absent", renders |-> 0, groups |-> None]
        /\ nOps = 0

UpdateCrosshair ==
    /\ Step(update_crosshair(Mach), "update_crosshair", "done", None)
    /\ UNCHANGED <<file, saved>>

NextCanvas == UpdateCrosshair

SpecCanvas == InitCanvas /\ [][NextCanvas]_vars

(***************************************************************************)
(* Properties                                                              *)
(***************************************************************************)
\* C1: whenever parse_valorant_code has applied a matching text, the
\* configuration holds showOutline = (outlineEnabled # 0), innerLength =
\* 2 * innerLen, outerLength = 2 * outerLen, innerOpacity = innerOpacityPct / 100,
\* outlineThickness = the parsed value and outerOpacity =
\* (outerOpacityPct * outerOpacityMultiplier) / 100, whatever the sliders and
\* checkboxes showed before.
C1_DecodedFields ==
    (last.op = "parse_valorant_code" /\ last.outcome = "applied") =>
        /\ crosshair.show_outline = (last.groups[1] # 0)
        /\ crosshair.inner_length = 2 * last.groups[2]
        /\ crosshair.outer_length = 2 * last.groups[3]
        /\ crosshair.inner_opacity = last.groups[4]
        /\ crosshair.outline_thickness = last.groups[6]
        /\ crosshair.outer_opacity = last.groups[7] * last.groups[8]

\* C2: a text the pattern does not match (the empty text included) leaves the
\* overlay object (every configuration field, the custom image, the bitmap
\* shown) as it was, runs no update_crosshair, and ends in a branch other than
\* the one that applies the code.
C2_RejectedCodeChangesNothing ==
    [][(last'.op = "parse_valorant_code" /\ PatSearch(ui'.code_input) = None) =>
          /\ crosshair' = crosshair
          /\ render' = render
          /\ last'.renders = 0
          /\ last'.outcome \in {"empty", "invalid"}]_vars

\* C2 witness: a text without its last digits was rejected while a custom image
\* was loaded and the outline had been switched on.
C2_Witness ==
    /\ last.op = "parse_valorant_code"
    /\ last.outcome = "invalid"
    /\ ui.code_input = CutCode
    /\ crosshair.crosshair_image # None
    /\ crosshair.show_outline

\* C3: once save_settings has written configuration C, a later load_settings
\* (no save in between) leaves every persisted field equal to its value in C.
C3_SaveLoadRoundTrip ==
    (last.op = "load_settings" /\ saved # None) => Config(crosshair) = saved[1]

\* C4: after load_settings has read a record, every persisted key the record
\* lacks has its field at the construction default.
C4_MissingKeysDefault ==
    (last.op = "load_settings" /\ last.outcome = "loaded") =>
        \A k \in Keys \ file.present : crosshair[k] = Defaults[k]

\* C5: for every configured size S and image height H, the canvas dimension
\* update_crosshair computes is odd and at least max(S, H) + 32.
C5_CanvasOddAndPadded ==
    render.img_size # 0 =>
        /\ render.img_size % 2 = 1
        /\ render.img_size >= Max(render.S, render.H) + 32

\* C5 witness: a canvas whose padded size was even and was made odd, sized by an
\* image higher than the configured size.
C5_Witness ==
    /\ last.op = "update_crosshair"
    /\ render.H > render.S
    /\ (render.H + padding) % 2 = 0
    /\ render.img_size = render.H + padding + 1

\* C6: for a size in 50..200 and the 64x64 image, the offset of the 2x-scaled
\* image is (canvas - scaledDim) / 2 on both axes, is not negative, and
\* offset + scaledDim does not exceed the canvas.
C6_ScaledImageFits ==
    (render.img_size # 0 /\ render.S \in SizeMin..SizeMax /\ render.H = target_size) =>
        /\ render.y_offset = (render.img_size - render.scaled_h) \div 2
        /\ render.x_offset = (render.img_size - render.scaled_w) \div 2
        /\ render.y_offset >= 0
        /\ render.x_offset >= 0
        /\ render.y_offset + render.scaled_h <= render.img_size
        /\ render.x_offset + render.scaled_w <= render.img_size

\* C7: a load_settings that ends without having loaded (no file, unparsable
\* file, a null value) leaves every configuration field as it was.
C7_FailedLoadChangesNothing ==
    [][(last'.op = "load_settings" /\ last'.outcome \in {"absent", "error"}) =>
          Config(crosshair') = Config(crosshair)]_vars

\* C8: innerOpacity, outerOpacity and dotOpacity lie in [0, 1] in every
\* reachable state.
C8_OpacitiesInUnitRange ==
    /\ crosshair.inner_opacity \in 0..100
    /\ crosshair.outer_opacity \in 0..100
    /\ crosshair.dot_opacity \in 0..100

\* C9: the configured size lies in 50..200 and equals the size slider's value
\* in every reachable state.
C9_SizeInSliderRange ==
    /\ crosshair.size \in SizeMin..SizeMax
    /\ crosshair.size = ui.size_slider

\* C10: in every state reached from startup by toggle_visibility calls and
\* configuration operations, the settings panel is visible exactly when the
\* overlay is, both exactly when the hidden flag is false; toggle_visibility
\* flips both, and no configuration operation changes either.
C10_VisibilityInSync ==
    /\ ui.visible = crosshair.visible
    /\ ui.visible = ~ui.hidden
    /\ [][last'.op # "closeEvent" =>
          /\ ui'.visible = crosshair'.visible
          /\ ui'.visible = ~ui'.hidden
          /\ last'.op = "toggle_visibility" =>
                (ui'.visible = ~ui.visible /\ crosshair'.visible = ~crosshair.visible)
          /\ last'.op # "toggle_visibility" =>
                (ui'.visible = ui.visible /\ crosshair'.visible = crosshair.visible)]_vars

\* C10 witness: both windows hidden by a toggle, then a settings load while
\* hidden.
C10_Witness ==
    /\ last.op = "load_settings"
    /\ last.outcome = "loaded"
    /\ ui.hidden
    /\ ~ui.visible
    /\ ~crosshair.visible

\* C11: once a handler has returned, the position the running re-centering
\* timer moves the overlay to is the position center_on_screen computes for the
\* overlay's current window size.
C11_TimerTargetCentered ==
    (crosshair.center_timer # None /\ crosshair.center_timer.active) =>
        <<crosshair.center_timer.x, crosshair.center_timer.y>> =
            CenteredPosition(crosshair.width, crosshair.height)

\* C12: a handler whose update_crosshair calls ran without a custom image, or
\* with one whose copy onto the canvas raised, leaves the bitmap on the label and
\* the overlay window's size as they were, and goes on to its end (the
\* exception does not reach the handler).
C12_FailedRenderKeepsDisplay ==
    [][(/\ last'.renders > 0
        /\ (crosshair'.crosshair_image = None \/ ~render'.copied)) =>
          /\ crosshair'.pixmap = crosshair.pixmap
          /\ crosshair'.width = crosshair.width
          /\ crosshair'.height = crosshair.height
          /\ last'.outcome # "error"]_vars

\* C12 witness: with the 133-pixel canvas on display the size went to 50, the
\* copy onto the 97-pixel canvas raised, and the display is still the 133-pixel
\* one.
C12_Witness ==
    /\ last.op = "size_slider"
    /\ last.renders = 2
    /\ crosshair.size = SizeMin
    /\ render.img_size = 97
    /\ ~render.copied
    /\ crosshair.pixmap = 133
    /\ crosshair.width = 133
    /\ crosshair.height = 133

\* C13: however many center_on_screen calls have run, at most one re-centering
\* timer is running, and once closeEvent has run none is.
C13_OneTimerNoneAfterClose ==
    /\ ActiveTimers(crosshair) <= 1
    /\ ui.closed => ActiveTimers(crosshair) = 0

\* C13 witness: the window was closed after the startup centring, the two of a
\* size change and the one of an image load; the last timer is there, stopped.
C13_Witness ==
    /\ last.op = "closeEvent"
    /\ ui.closed
    /\ crosshair.crosshair_image # None
    /\ crosshair.size = SizeMax
    /\ crosshair.width = 233
    /\ crosshair.center_timer # None
    /\ ~crosshair.center_timer.active
    /\ <<crosshair.center_timer.x, crosshair.center_timer.y>> =
           CenteredPosition(crosshair.width, crosshair.height)

\* the fields a decode is said to leave alone
DecoderFrame ==
    {"size", "thickness", "color", "outline_color", "show_inner", "show_outer",
     "show_dot", "dot_opacity", "dot_size", "crosshair_image"}

\* texts that differ in the inner offset (0f) only
OffsetTwins == {ExampleCode, OffsetCode}

\* C14: a parse_valorant_code that applied its text, the slots it triggers
\* included, leaves size, thickness, both colours, show_inner, show_outer,
\* show_dot, dot_opacity, dot_size and the custom image as they were; and the
\* same call on a text that differs in the inner offset only ends with the same
\* overlay object, the same widgets and the same display.
C14_DecoderFrame ==
    [][(last'.op = "parse_valorant_code" /\ last'.outcome = "applied") =>
          /\ \A k \in DecoderFrame : crosshair'[k] = crosshair[k]
          /\ ui'.code_input \in OffsetTwins =>
                \A t \in OffsetTwins :
                    \E res \in {parse_valorant_code([Mach EXCEPT !.w.code_input = t])} :
                        /\ res.outcome = "applied"
                        /\ res.m.c = crosshair'
                        /\ res.m.r = render'
                        /\ [res.m.w EXCEPT !.code_input = ui'.code_input] = ui']_vars

\* C14 witness: a text with inner offset 5 was applied and switched the outline
\* on, with a custom image loaded and the dot settings of a loaded file in
\* place.
C14_Witness ==
    /\ last.op = "parse_valorant_code"
    /\ last.outcome = "applied"
    /\ last.groups[5] = 5
    /\ crosshair.show_outline
    /\ crosshair.crosshair_image # None
    /\ crosshair.show_dot
    /\ crosshair.dot_opacity = 50
    /\ crosshair.thickness = 5

====
